---- MODULE Spec2Model ----
(***************************************************************************)
(* logger(1) of sysklogd, src/logger.c: the file sink with size-triggered  *)
(* rotation (flogit, checksz, logrotate, create), the -r option parser and *)
(* the part of main that feeds them: the option loop and the join of the   *)
(* positional arguments into buf.                                          *)
(*                                                                         *)
(* A file is a record [ex, data, mode, owner]; data is a sequence of       *)
(* bytes.  A payload byte of the n-th input line of the run of invocations *)
(* is the number n, so that duplicated, lost or reordered lines show in    *)
(* the contents.  The directory holds the active file, <file>.k and        *)
(* <file>.k.gz.  A FILE handle has its own user-space buffer: fputs and    *)
(* fprintf store into it, and only a full buffer or fclose moves bytes to  *)
(* the descriptor.  fsync(fileno(fp)) and fstat(fileno(fp)) act on the     *)
(* descriptor and never see bytes that are still in the FILE buffer.       *)
(***************************************************************************)
EXTENDS Integers, Sequences, FiniteSets, TLC

(* ------------------------------ bounds --------------------------------- *)
\* invocations of the program, one after the other, on the same directory
MaxRuns == 2
\* lines standard input supplies to one invocation
MaxLines == 3
\* capacity of a FILE buffer (BUFSIZ, scaled), at least one line and its "\n"
StdioCap == 3
\* sizeof(buf) of main, scaled: fgets returns at most LineBuf - 1 bytes
LineBuf == 3
\* positional arguments on the invocation line, where their number matters
MaxArgs == 2
\* lengths of an input line (terminator included) and of a message token
LineLens == {1, 2}
\* length of a message token on the invocation line
TokenLens == {1}
\* the calls the environment lets fail, by behaviour: none, or those of one
\* cause (stat, the compressor, the rename of the active file and the
\* truncation after it, write(2), fsync, fopen)
FaultSets ==
    {{}, {"stat"}, {"gzip"}, {"rename"}, {"rename", "truncate"}, {"truncate"},
     {"write"}, {"fsync"}, {"fopen"}}
\* the -r arguments tried: SIZE[:COUNT]; given: -r is on the invocation line,
\* colon: the argument has a ":COUNT" part.  "-r 0", "-r 2" and "-r 2:COUNT"
CountArgs == {-1, 0, 1, 2, 3}
NoOpt == [given |-> FALSE, size |-> [n |-> 0, suffix |-> ""], colon |-> FALSE,
          count |-> 0]
RotOpts ==
    {NoOpt}
    \cup [given : {TRUE}, size : {[n |-> 0, suffix |-> ""], [n |-> 2, suffix |-> ""]},
          colon : {FALSE}, count : {0}]
    \cup [given : {TRUE}, size : {[n |-> 2, suffix |-> ""]}, colon : {TRUE},
          count : CountArgs]
\* contents of an active file that exists before the first invocation
OldData == <<0, 0, 0>>
\* the C libraries: what a full FILE buffer hands to write(2)
Libcs == {"glibc", "musl"}
\* option letters tried as the first option of an invocation that ends in
\* main's option loop: one getopt does not know, "-?" and "-v"
EndLetters == {"x", "?", "v"}
\* permission bits told apart, users (owner stands for uid and gid)
Perms == {"gw"}
Users == {"root", "user", "other"}

(* -------------------------- program constants -------------------------- *)
DefaultNum == 5
DefaultSize == 200 * 1024
\* the "\n" fprintf adds, the " " main adds after a token, gzip's header
NL == -1
SP == -2
GzMagic == -3
\* fclose's failure value
EOF == -1
\* the mode fopen(path, "a") creates a file with, before the umask
FopenMode == Perms
\* size_t, scaled: pos and len of main's join are unsigned and wrap at
\* SizeMod; a length above IntMax is one vsnprintf may refuse
SizeMod == 2 ^ 16
IntMax == (SizeMod \div 2) - 1
\* exit statuses of a process killed by SIGABRT, SIGSEGV
CrashStatus == {134, 139}

(* ------------------------------- files --------------------------------- *)
NoFile == [ex |-> FALSE, data |-> <<>>, mode |-> {}, owner |-> "root"]
Log == <<"log", 0>>
Gen(k) == <<"gen", k>>
Gz(k) == <<"gz", k>>
\* the names logrotate can form with num <= DefaultNum, and one above
TopGen == DefaultNum + 1
Names == {Log} \cup {Gen(k) : k \in 0..TopGen} \cup {Gz(k) : k \in 1..TopGen}

VARIABLES
    pc,        \* where the program is: "idle" between invocations
    left,      \* invocations still to come
    ropt,      \* the -r argument of the invocations
    umask,     \* the process's umask (permission bits it clears)
    euid,      \* the process's effective user
    size, num, \* main's size and num after option parsing
    buf,       \* main's buf: the message, or the line fgets read last
    fp,        \* the FILE of flogit: [open, wbuf]
    fs,        \* the directory: Names -> file
    nlines,    \* input lines handed out so far (all invocations)
    nrun,      \* input lines handed out to this invocation
    rest,      \* bytes of the current input line fgets has not returned yet
    rc,        \* flogit's return value
    status,    \* exit status of the last finished invocation
    reported,  \* what this invocation reported through syslog
    libc,      \* the C library of the build
    env,       \* the calls that may fail in this behaviour
    inputs,    \* what the invocations are given in this behaviour: args, the
               \* lists of positional arguments (a list of token lengths);
               \* lines, the lengths of the lines of standard input
    hist       \* history of this invocation, read by the properties only

vars == <<pc, left, ropt, umask, euid, size, num, buf, fp, fs, nlines, nrun,
          rest, rc, status, reported, libc, env, inputs, hist>>

(* ------------------------------ helpers -------------------------------- *)
Bytes(n, len) == [i \in 1..len |-> n]
Take(s, k) == SubSeq(s, 1, k)
Drop(s, k) == SubSeq(s, k + 1, Len(s))
Min(a, b) == IF a < b THEN a ELSE b

(* --------------------------- rename, remove ---------------------------- *)
\* a rename that fails when the new name exists
renameNoReplace(f, o, n) ==
    IF f[o].ex /\ ~f[n].ex THEN [f EXCEPT ![n] = f[o], ![o] = NoFile] ELSE f

\* a rename that leaves the old name in place (link without unlink)
renameKeepsSource(f, o, n) ==
    IF f[o].ex THEN [f EXCEPT ![n] = f[o]] ELSE f

\* rename(2) of o to n: fails when o does not exist, replaces n otherwise
rename(f, o, n) ==
    IF f[o].ex THEN [f EXCEPT ![n] = f[o], ![o] = NoFile] ELSE f

\* remove(3)
remove(f, n) == [f EXCEPT ![n] = NoFile]

\* truncate(path, 0); ok: the call succeeds
truncate(f, ok) == IF ok /\ f[Log].ex THEN [f EXCEPT ![Log].data = <<>>] ELSE f

\* what gzip writes for the bytes d, and its inverse
Compress(d) == <<GzMagic>> \o d
Decompress(z) == Tail(z)

\* system("gzip <file>.k"): ok: gzip is in $PATH and succeeds.  gzip refuses
\* to replace an existing <file>.k.gz (no -f), and removes <file>.k itself
\* when it has written <file>.k.gz.
gzip(f, k, ok) ==
    IF ok /\ ~f[Gz(k)].ex
    THEN [f EXCEPT ![Gz(k)] = [f[Gen(k)] EXCEPT !.data = Compress(@)],
                   ![Gen(k)] = NoFile]
    ELSE f

(* ------------------------------- create -------------------------------- *)
\* mknod(path, S_IFREG | mode, 0) || chown(path, uid, gid): mknod makes the
\* file with mode & ~umask, owned by the caller; chown to another owner
\* needs root.
create(f, mode, owner, um, eu) ==
    LET made == [ex |-> TRUE, data |-> <<>>, mode |-> mode \ um, owner |-> eu]
        own == IF eu = "root" \/ owner = eu THEN owner ELSE eu
    IN IF f[Log].ex THEN f
       ELSE [f EXCEPT ![Log] = [made EXCEPT !.owner = own]]

(* ------------------------------ logrotate ------------------------------ *)
\* for (cnt = num; cnt > 2; cnt--) rename(file.(cnt-1).gz, file.cnt.gz)
RECURSIVE AgeZipped(_, _)
AgeZipped(f, cnt) ==
    IF cnt > 2 THEN AgeZipped(rename(f, Gz(cnt - 1), Gz(cnt)), cnt - 1) ELSE f

\* the body of the second loop at cnt == 2: gzip the aged file, remove it
ZipAged(f, cnt, gzipOk) ==
    IF cnt = 2 /\ f[Gen(cnt)].ex THEN remove(gzip(f, cnt, gzipOk), Gen(cnt)) ELSE f

\* the loops starting one generation too high
LadderTopAbove(n) == n + 1

\* cnt = num: the generation both loops start at
LadderTop(n) == n

\* for (cnt = num; cnt > 0; cnt--) rename(file.(cnt-1), file.cnt), gzip at 2
RECURSIVE AgePlain(_, _, _)
AgePlain(f, cnt, gzipOk) ==
    IF cnt > 0
    THEN AgePlain(ZipAged(rename(f, Gen(cnt - 1), Gen(cnt)), cnt, gzipOk),
                  cnt - 1, gzipOk)
    ELSE f

\* a failed rename that leaves the active file as it is
RotateActiveNoTruncate(f, st, in, um, eu) ==
    IF in.renameOk
    THEN create(rename(f, Log, Gen(1)), st.mode, st.owner, um, eu)
    ELSE f

\* if (rename(file, nfile)) truncate(file, 0); else create(file, st...);
\* nfile is the name the second loop formed last, <file>.1
RotateActive(f, st, in, um, eu) ==
    IF in.renameOk
    THEN create(rename(f, Log, Gen(1)), st.mode, st.owner, um, eu)
    ELSE truncate(f, in.truncOk)

\* the error reported by the num <= 0 branch when truncate fails
TruncateReport(in) == IF in.truncOk THEN {} ELSE {"truncate"}

\* logrotate(file, num, sz) on the directory f.  in: which of the calls the
\* environment lets succeed.  Result: the directory, the return value and
\* the errors reported.  The handle is closed and the path was opened by
\* this process, so S_ISREG holds of it.
logrotate(f, n, sz, in, um, eu) ==
    LET st == f[Log] IN
    IF ~(in.statOk /\ st.ex) THEN [fs |-> f, ret |-> 1, rep |-> {}]
    ELSE IF ~(sz > 0 /\ Len(st.data) > sz) THEN [fs |-> f, ret |-> 0, rep |-> {}]
    ELSE IF n > 0
         THEN [fs |-> RotateActive(AgePlain(AgeZipped(f, LadderTop(n)),
                                            LadderTop(n), in.gzipOk),
                                   st, in, um, eu),
               ret |-> 0, rep |-> {}]
         ELSE [fs |-> truncate(f, in.truncOk), ret |-> 0,
               rep |-> TruncateReport(in)]

\* the outcomes of logrotate's calls: truncate is only called when the
\* rename failed (or num <= 0), and nothing is called when stat failed
AllOk == [statOk |-> TRUE, gzipOk |-> TRUE, renameOk |-> TRUE, truncOk |-> TRUE]
RotInputs ==
    {in \in [statOk : BOOLEAN, gzipOk : BOOLEAN, renameOk : BOOLEAN,
             truncOk : BOOLEAN] :
        /\ ~in.statOk => in.gzipOk /\ in.renameOk /\ in.truncOk}

(* ---------------------------- environment ------------------------------ *)
\* the outcomes the environment may choose for a call
Oks(call) == IF call \in env THEN BOOLEAN ELSE {TRUE}
RotOks ==
    {in \in RotInputs :
        /\ in.statOk \in Oks("stat") /\ in.gzipOk \in Oks("gzip")
        /\ in.renameOk \in Oks("rename") /\ in.truncOk \in Oks("truncate")}

(* ------------------------------ checksz -------------------------------- *)
\* checksz(fp, sz) on a descriptor whose file holds d: TRUE when it closes
\* the handle and asks for a rotation.  d is what fstat sees: the bytes
\* write(2) has received, not those in the FILE buffer.  fstat of the open
\* descriptor succeeds.
checksz(d, sz) == IF sz <= 0 THEN FALSE ELSE Len(d) > sz

(* ------------------------------- stdio --------------------------------- *)
\* bytes a full buffer hands to write(2) when the bytes s arrive at a buffer
\* holding w and do not fit: the whole of it (musl), or the filled
\* buffer and the whole blocks after it
Transmit(w, s, lc) ==
    IF lc = "musl" THEN Len(w) + Len(s)
    ELSE LET r == Len(w) + Len(s) - StdioCap
         IN StdioCap + (r - (r % StdioCap))

\* fputs / fprintf of the bytes s on a handle with buffer w whose file holds
\* d.  ok: write(2) succeeds (a failed write loses its bytes); err: a write
\* failed.
fputs(w, d, s, ok, lc) ==
    IF Len(w) + Len(s) <= StdioCap
    THEN [wbuf |-> w \o s, data |-> d, err |-> FALSE]
    ELSE LET all == w \o s
             k == Transmit(w, s, lc)
         IN [wbuf |-> Drop(all, k),
             data |-> IF ok THEN d \o Take(all, k) ELSE d,
             err |-> ~ok]

\* the flush of fclose: the buffered bytes reach the file
fflush(w, d, ok) == IF ok THEN d \o w ELSE d

\* fclose's return value
fcloseRet(w, ok) == IF w # <<>> /\ ~ok THEN EOF ELSE 0

\* fgets(buf, len, stdin) on the input line l: at most len - 1 bytes
fgets(l) == Take(l, Min(Len(l), LineBuf - 1))

(* --------------------------- parse_rotation ---------------------------- *)
\* strtobytes of compat: the number, times 1024 per "k"
strtobytes(a) == IF a.suffix = "k" THEN a.n * 1024 ELSE a.n

\* parse_rotation(optarg, &size, &num): size and num keep their values
\* unless the argument gives a positive SIZE, a nonzero COUNT
parse_rotation(o, sz0, num0) ==
    LET cnt == IF o.colon THEN o.count ELSE 0
        sz == strtobytes(o.size)
    IN [size |-> IF sz > 0 THEN sz ELSE sz0,
        num |-> IF cnt # 0 THEN cnt ELSE num0]

\* main's option loop: the defaults, then -r when given
Options(o) ==
    IF o.given THEN parse_rotation(o, DefaultSize, DefaultNum)
    ELSE [size |-> DefaultSize, num |-> DefaultNum]

(* ------------------------------- getopt -------------------------------- *)
\* the letters of getopt's option string "?f:p:r:st:v"
OptString == {"?", "f", "p", "r", "s", "t", "v"}

\* getopt's return value for the option letter c: "?" for an unknown one
getopt(c) == IF c \in OptString THEN c ELSE "?"

\* usage(code): prints the help text, returns code
usage(code) == code

\* main's switch for a letter that ends the option loop: case 'v' returns 0,
\* default (which takes "?") returns usage(0)
OptionReturn(c) == IF getopt(c) = "v" THEN 0 ELSE usage(0)

(* ------------------------------ history -------------------------------- *)
\* no logrotate call has just returned
NoRot == [called |-> FALSE]

\* no append has brought the file from at most size to above size
NoCross == [set |-> FALSE, bytes |-> <<>>, calls |-> 0, later |-> 0,
            nextb |-> <<>>]

\* no arguments were joined
NoJoin == [args |-> <<>>, pos |-> 0, len |-> 0, oob |-> FALSE, wrapped |-> FALSE]

\* the history at the start of an invocation.  mode: "once" or "stream";
\* start: the directory at the start; consumed: bytes fgets returned;
\* appended: bytes given to fputs / fprintf; since: appends on the handle
\* open now; calls: logrotate calls; last: the logrotate call that has just
\* returned, with the directory before it and its inputs; iofail: a write
\* or fsync failed; afterfail: logrotate was called after that; over: an
\* append left more than size bytes in the file and its buffer; cross: the
\* first append that brought them from at most size to above it (bytes:
\* file and buffer after it, calls: logrotate calls before it), the number
\* of appends after it and the bytes of the first of them; opt: the option
\* letter that ended main in its option loop; abandoned: a logrotate call
\* returned nonzero; opens, closes: successful fopen calls and fclose calls;
\* misuse: a call on a handle that was closed before; check: what the last
\* checksz returned; reads: fgets calls that returned bytes; join: the
\* arguments main joined and its pos and len after the join
NewHist(mode, f) ==
    [mode |-> mode, start |-> f, opt |-> "", consumed |-> <<>>,
     appended |-> <<>>, since |-> 0, calls |-> 0, last |-> NoRot,
     iofail |-> FALSE, afterfail |-> FALSE, over |-> FALSE, cross |-> NoCross,
     abandoned |-> FALSE, opens |-> 0, closes |-> 0, misuse |-> FALSE,
     check |-> FALSE, reads |-> 0, join |-> NoJoin]

\* the crossing record after an append of s to a file and buffer holding b
Crossing(c, b, s, sz, calls) ==
    IF c.set
    THEN [c EXCEPT !.later = @ + 1, !.nextb = IF c.later = 0 THEN s ELSE @]
    ELSE IF sz > 0 /\ Len(b) <= sz /\ Len(b) + Len(s) > sz
         THEN [set |-> TRUE, bytes |-> b \o s, calls |-> calls, later |-> 0,
               nextb |-> <<>>]
         ELSE c

\* the history while no invocation runs
NoHist == NewHist("idle", [n \in Names |-> NoFile])

(* -------------------------------- main --------------------------------- *)
\* the message main joins from the positional arguments: "%s " per token
Message(n, len) == Bytes(n, len) \o <<SP>>

\* main's pos, len and the string in buf before the first argument
JoinStart ==
    [str |-> <<>>, pos |-> 0, len |-> LineBuf, oob |-> FALSE, wrapped |-> FALSE]

\* bytes = snprintf(&buf[pos], len, "%s ", arg); pos += bytes; len -= bytes
\* for an argument of t bytes of line n.  snprintf returns t + 1 whatever
\* it stored; it stores nothing when len is 0, else at most len - 1 bytes
\* and a NUL; musl's returns -1 for a len above INT_MAX.  str: the string
\* in buf; oob: a store was made outside buf; wrapped: len went below zero.
snprintf(j, n, t, lc) ==
    LET text == Message(n, t)
        refused == lc = "musl" /\ j.len > IntMax
        ret == IF refused THEN SizeMod - 1 ELSE Len(text)
        k == IF j.len = 0 \/ refused THEN 0 ELSE Min(Len(text), j.len - 1)
        stores == j.len # 0 /\ ~refused
        inside == j.pos + k + 1 <= LineBuf
    IN [str |-> IF stores /\ inside /\ j.pos = Len(j.str)
                THEN j.str \o Take(text, k) ELSE j.str,
        pos |-> (j.pos + ret) % SizeMod,
        len |-> (j.len - ret) % SizeMod,
        oob |-> j.oob \/ (stores /\ ~inside),
        wrapped |-> j.wrapped \/ (~refused /\ ret > j.len)]

\* while (optind < argc) ...: the join of the arguments a, from the i-th on
RECURSIVE Join(_, _, _, _, _)
Join(j, a, i, n, lc) ==
    IF i > Len(a) THEN j ELSE Join(snprintf(j, n, a[i], lc), a, i + 1, n, lc)

\* main up to the call of flogit with a message on the invocation line.  A
\* store outside buf is undefined: the process goes on with buf as it is,
\* or is killed
MainOnce ==
    /\ pc = "idle" /\ left > 0
    /\ \E a \in inputs.args :
          LET j == Join(JoinStart, a, 1, nlines + 1, libc)
          IN /\ buf' = j.str
             /\ hist' = [NewHist("once", fs) EXCEPT
                            !.join = [args |-> a, pos |-> j.pos, len |-> j.len,
                                      oob |-> j.oob, wrapped |-> j.wrapped]]
             /\ \/ pc' = "reopen" /\ rc' = 0
                \/ j.oob /\ pc' = "exit" /\ rc' \in CrashStatus
    /\ nlines' = nlines + 1
    /\ size' = Options(ropt).size /\ num' = Options(ropt).num
    /\ left' = left - 1 /\ nrun' = 0 /\ rest' = <<>>
    /\ reported' = {}
    /\ UNCHANGED <<ropt, umask, euid, fp, fs, status, libc, env,
                   inputs>>

\* main up to the call of flogit without a message: buf is ""
MainStream ==
    /\ pc = "idle" /\ left > 0
    /\ buf' = <<>>
    /\ size' = Options(ropt).size /\ num' = Options(ropt).num
    /\ left' = left - 1 /\ nrun' = 0 /\ rest' = <<>>
    /\ rc' = 0 /\ reported' = {}
    /\ hist' = NewHist("stream", fs)
    /\ pc' = "reopen"
    /\ UNCHANGED <<ropt, umask, euid, fp, fs, nlines, status, libc, env,
                   inputs>>

\* main returning from its option loop: an option letter getopt does not
\* know, "-?" or "-v"; flogit is not called
MainUsage ==
    /\ pc = "idle" /\ left > 0
    /\ \E c \in EndLetters :
          /\ rc' = OptionReturn(c)
          /\ hist' = [NewHist("options", fs) EXCEPT !.opt = c]
    /\ left' = left - 1
    /\ pc' = "exit"
    /\ UNCHANGED <<ropt, umask, euid, size, num, buf, fp, fs, nlines, nrun,
                   rest, status, reported, libc, env, inputs>>

\* main returns rc: the exit status is its low byte; the process's memory
\* and what is left of its input are gone
Exit ==
    /\ pc = "exit"
    /\ status' = rc % 256
    /\ pc' = "idle"
    /\ size' = DefaultSize /\ num' = DefaultNum
    /\ buf' = <<>> /\ rc' = 0 /\ reported' = {}
    /\ nrun' = 0 /\ rest' = <<>>
    /\ hist' = NoHist
    /\ UNCHANGED <<left, ropt, umask, euid, fp, fs, nlines, libc, env,
                   inputs>>

(* ------------------------------- flogit -------------------------------- *)
\* fopen with "w" for "a": an existing file is emptied
OpenedEmptied(f, um, eu) ==
    [f EXCEPT ![Log] = [ex |-> TRUE, data |-> <<>>,
                        mode |-> IF f[Log].ex THEN f[Log].mode ELSE FopenMode \ um,
                        owner |-> IF f[Log].ex THEN f[Log].owner ELSE eu]]

\* the file fopen(logfile, "a") leaves at the path
Opened(f, um, eu) ==
    IF f[Log].ex THEN f
    ELSE [f EXCEPT ![Log] = [ex |-> TRUE, data |-> <<>>,
                             mode |-> FopenMode \ um, owner |-> eu]]

\* reopen: fp = fopen(logfile, "a"); a failure is reported and returns 1
Fopen ==
    /\ pc = "reopen"
    /\ \/ /\ fs' = Opened(fs, umask, euid)
          /\ fp' = [open |-> TRUE, wbuf |-> <<>>]
          /\ pc' = IF buf # <<>> THEN "once" ELSE "stream"
          /\ hist' = [hist EXCEPT !.last = NoRot, !.since = 0,
                                  !.opens = @ + 1]
          /\ UNCHANGED <<rc, reported>>
       \/ /\ FALSE \in Oks("fopen")
          /\ reported' = reported \cup {"open"}
          /\ rc' = 1
          /\ pc' = "exit"
          /\ hist' = [hist EXCEPT !.last = NoRot, !.since = 0]
          /\ UNCHANGED <<fs, fp>>
    /\ UNCHANGED <<left, ropt, umask, euid, size, num, buf, nlines, nrun,
                   rest, status, libc, env,
                   inputs>>

\* checksz returning 1 without its fclose(fp)
CheckedLeftOpen(rot, w) == [open |-> TRUE, wbuf |-> w]

\* the handle after checksz returned rot, with w in its buffer before:
\* checksz has closed it when it returns 1
Checked(rot, w) ==
    IF rot THEN [open |-> FALSE, wbuf |-> <<>>] ELSE [open |-> TRUE, wbuf |-> w]

\* the handle after fputs, fsync and checksz of the bytes s (got: the bytes
\* fgets returned for them): closed with everything flushed when checksz
\* asks for a rotation
AppendSync(s, got, ok, syncOk) ==
    LET w == fputs(fp.wbuf, fs[Log].data, s, ok, libc)
        rot == checksz(w.data, size)
    IN /\ fp' = Checked(rot, w.wbuf)
       /\ fs' = [fs EXCEPT ![Log].data =
                    IF rot THEN fflush(w.wbuf, w.data, ok) ELSE w.data]
       /\ hist' = [hist EXCEPT
                     !.appended = @ \o s,
                     !.consumed = @ \o got,
                     !.since = @ + 1,
                     !.reads = IF got # <<>> THEN @ + 1 ELSE @,
                     !.check = rot,
                     !.closes = IF Checked(rot, w.wbuf).open THEN @ ELSE @ + 1,
                     !.misuse = @ \/ ~fp.open,
                     !.iofail = @ \/ w.err \/ ~syncOk
                                 \/ (rot /\ w.wbuf # <<>> /\ ~ok),
                     !.over = @ \/ (size > 0 /\
                         Len(fs[Log].data) + Len(fp.wbuf) + Len(s) > size),
                     !.cross = Crossing(@, fs[Log].data \o fp.wbuf, s, size,
                                        hist.calls)]

\* buf[0] != 0: fprintf(fp, "%s\n", buf); fsync; checksz, then logrotate
WriteOnce ==
    /\ pc = "once"
    /\ \E ok \in Oks("write"), syncOk \in Oks("fsync") :
          AppendSync(buf \o <<NL>>, <<>>, ok, syncOk)
    /\ pc' = IF hist'.check THEN "rotate_once" ELSE "fclose"
    /\ UNCHANGED <<left, ropt, umask, euid, size, num, buf, nlines, nrun,
                   rest, rc, status, reported, libc, env,
                   inputs>>

\* one turn of while (fgets(buf, len, stdin)): fputs, fsync, checksz
StreamLine ==
    /\ pc = "stream"
    /\ \E l \in IF rest # <<>> THEN {rest}
                 ELSE IF nrun < MaxLines
                      THEN {Bytes(nlines + 1, n) : n \in inputs.lines} ELSE {} :
          /\ buf' = fgets(l)
          /\ rest' = Drop(l, Len(fgets(l)))
          /\ nlines' = IF rest = <<>> THEN nlines + 1 ELSE nlines
          /\ nrun' = IF rest = <<>> THEN nrun + 1 ELSE nrun
    /\ \E ok \in Oks("write"), syncOk \in Oks("fsync") :
          AppendSync(buf', buf', ok, syncOk)
    /\ pc' = IF hist'.check THEN "rotate_stream" ELSE "stream"
    /\ UNCHANGED <<left, ropt, umask, euid, size, num, rc, status, reported,
                   libc, env,
                   inputs>>

\* fgets returns NULL: end of input, the loop ends
StreamEof ==
    /\ pc = "stream" /\ rest = <<>>
    /\ pc' = "fclose"
    /\ UNCHANGED <<left, ropt, umask, euid, size, num, buf, fp, fs, nlines,
                   nrun, rest, rc, status, reported, libc, env, inputs,
                   hist>>

\* the history after a logrotate call on the directory f with inputs in
Rotated(f, in, r) ==
    [hist EXCEPT !.calls = @ + 1,
                 !.afterfail = @ \/ hist.iofail,
                 !.abandoned = @ \/ r.ret # 0,
                 !.last = [called |-> TRUE, pre |-> f, in |-> in, ret |-> r.ret]]

\* return logrotate(logfile, num, sz) of the single write
RotateOnce ==
    /\ pc = "rotate_once"
    /\ \E in \in RotOks :
          LET r == logrotate(fs, num, size, in, umask, euid)
          IN /\ fs' = r.fs
             /\ reported' = reported \cup r.rep
             /\ rc' = r.ret
             /\ hist' = Rotated(fs, in, r)
    /\ pc' = "exit"
    /\ UNCHANGED <<left, ropt, umask, euid, size, num, buf, fp, nlines, nrun,
                   rest, status, libc, env,
                   inputs>>

\* the reopen loop without its buf[0] = 0
ClearBufKept(b) == b

\* buf[0] = 0 before goto reopen
ClearBuf(b) == <<>>

\* logrotate(logfile, num, sz); buf[0] = 0; goto reopen of the stream
RotateStream ==
    /\ pc = "rotate_stream"
    /\ \E in \in RotOks :
          LET r == logrotate(fs, num, size, in, umask, euid)
          IN /\ fs' = r.fs
             /\ reported' = reported \cup r.rep
             /\ hist' = Rotated(fs, in, r)
    /\ buf' = ClearBuf(buf)
    /\ pc' = "reopen"
    /\ UNCHANGED <<left, ropt, umask, euid, size, num, fp, nlines, nrun,
                   rest, rc, status, libc, env,
                   inputs>>

\* return fclose(fp)
Fclose ==
    /\ pc = "fclose"
    /\ \E ok \in Oks("write") :
          /\ fs' = [fs EXCEPT ![Log].data = fflush(fp.wbuf, @, ok)]
          /\ rc' = fcloseRet(fp.wbuf, ok)
          /\ hist' = [hist EXCEPT !.iofail = @ \/ (fp.wbuf # <<>> /\ ~ok),
                                  !.closes = @ + 1,
                                  !.misuse = @ \/ ~fp.open]
    /\ fp' = [open |-> FALSE, wbuf |-> <<>>]
    /\ pc' = "exit"
    /\ UNCHANGED <<left, ropt, umask, euid, size, num, buf, nlines, nrun,
                   rest, status, reported, libc, env,
                   inputs>>

(* --------------------------- specification ----------------------------- *)
\* the directory with the active file a and no generation file
Dir(a) == [n \in Names |-> IF n = Log THEN a ELSE NoFile]

\* the states before the first invocation: the option, the process's umask
\* and user, and the directory
InitWith(opts, umasks, users, dirs, libcs, faults, given, todo) ==
    /\ pc = "idle" /\ left = todo
    /\ ropt \in opts /\ umask \in umasks /\ euid \in users
    /\ size = DefaultSize /\ num = DefaultNum
    /\ buf = <<>>
    /\ fp = [open |-> FALSE, wbuf |-> <<>>]
    /\ fs \in dirs
    /\ nlines = 0 /\ nrun = 0 /\ rest = <<>>
    /\ rc = 0 /\ status = 0 /\ reported = {}
    /\ libc \in libcs /\ env \in faults /\ inputs = given
    /\ hist = NoHist

\* the active file before the first invocation: none, or one of an earlier
\* invocation of the same user, already above the size of "-r 2"
OldFile == [ex |-> TRUE, data |-> OldData, mode |-> FopenMode, owner |-> "user"]
OwnFiles == {NoFile, OldFile}
OwnDirs == {Dir(a) : a \in OwnFiles}

\* one argument and lines that fit main's buf
ShortInputs == [args |-> {<<len>> : len \in TokenLens}, lines |-> LineLens]

\* every option, both C libraries, no failing call
Init ==
    InitWith(RotOpts, {{}}, {"user"}, OwnDirs, Libcs, {{}}, ShortInputs, MaxRuns)

\* one invocation with calls that fail
InitFault ==
    InitWith(RotOpts, {{}}, {"user"}, OwnDirs, Libcs, FaultSets, ShortInputs, 1)

Next ==
    \/ MainOnce
    \/ MainStream
    \/ MainUsage
    \/ Fopen
    \/ WriteOnce
    \/ StreamLine
    \/ StreamEof
    \/ RotateOnce
    \/ RotateStream
    \/ Fclose
    \/ Exit

Spec == Init /\ [][Next]_vars

SpecFault == InitFault /\ [][Next]_vars

\* one invocation of "-r 2:1" or "-r 2:-1" by the owner of the active file,
\* by another user or by root, under either umask, on an active file with or
\* without the group's write bit; the rename of the active file may fail
AttrOpts == {o \in RotOpts : o.colon /\ o.count \in {-1, 1}}
AttrFiles ==
    {NoFile} \cup [ex : {TRUE}, data : {OldData}, mode : SUBSET Perms,
                   owner : Users]
InitAttr ==
    InitWith(AttrOpts, SUBSET Perms, {"root", "user"},
             {Dir(a) : a \in AttrFiles}, {"glibc"},
             {{}, {"rename"}}, ShortInputs, 1)

SpecAttr == InitAttr /\ [][Next]_vars

\* one invocation whose standard input has lines that fill main's buf and
\* lines that do not fit it (fgets returns such a line in pieces); the
\* rotation may fail to shrink the active file
LongInputs == [args |-> ShortInputs.args, lines |-> {1, LineBuf - 1, LineBuf}]
LongFaults == {{}, {"stat"}, {"rename", "truncate"}}
InitLong ==
    InitWith(RotOpts, {{}}, {"user"}, OwnDirs, Libcs, LongFaults, LongInputs, 1)

SpecLong == InitLong /\ [][Next]_vars

\* the same, with the process never stopping while it has a step to take:
\* flogit is sequential code and every call in it returns
SpecLongFair == InitLong /\ [][Next]_vars /\ WF_vars(Next)

\* one invocation of "-r 1:2": a stream of MaxLines lines is several times
\* the size
ScenarioOpts ==
    {[given |-> TRUE, size |-> [n |-> 1, suffix |-> ""], colon |-> TRUE,
      count |-> 2]}
InitScenario ==
    InitWith(ScenarioOpts, {{}}, {"user"}, OwnDirs, Libcs, {{}}, ShortInputs, 1)

SpecScenario == InitScenario /\ [][Next]_vars

\* one invocation on a directory left by earlier ones, with some of
\* <file>.1, <file>.2.gz, <file>.3 and <file>.3.gz there and the others
\* missing; the compressor works and no call fails
StaleNames == {Gen(1), Gz(2), Gen(3), Gz(3)}
StaleFile(n) == IF n[1] = "gz" THEN [OldFile EXCEPT !.data = Compress(@)] ELSE OldFile
GapDirs ==
    {[n \in Names |-> IF n = Log THEN OldFile
                      ELSE IF n \in S THEN StaleFile(n) ELSE NoFile] :
        S \in SUBSET StaleNames}
InitGaps ==
    InitWith(RotOpts, {{}}, {"user"}, GapDirs, Libcs, {{}}, ShortInputs, 1)

SpecGaps == InitGaps /\ [][Next]_vars

\* one invocation with up to MaxArgs arguments of up to sizeof(buf) bytes
ArgLists ==
    UNION {[1..k -> 1..LineBuf] : k \in 1..MaxArgs}
ArgInputs == [args |-> ArgLists, lines |-> LineLens]
InitArgs ==
    InitWith(RotOpts, {{}}, {"user"}, OwnDirs, Libcs, {{}}, ArgInputs, 1)

SpecArgs == InitArgs /\ [][Next]_vars

(* ------------------------------ properties ----------------------------- *)
IsSuffix(s, t) == Len(s) <= Len(t) /\ s = Drop(t, Len(t) - Len(s))

\* the bytes of the active file and of the open handle's buffer
Active == fs[Log].data \o fp.wbuf

\* what the invocation has appended so far, after the starting bytes
Stream == hist.start[Log].data \o hist.appended

\* C1: in write_stream the bytes appended to the active path are exactly
\* the bytes fgets returned, in the order read, whatever the number of
\* rotations: no line is appended twice, none is skipped; and what the
\* active file and its buffer hold is the tail of that stream, so a line
\* appended before a rotation is not in the file opened after it
C1_StreamExactlyOnce ==
    hist.mode = "stream" =>
        /\ hist.appended = hist.consumed
        /\ fp.open => IsSuffix(Active, Stream)

\* C1 witness: a line was appended to the file reopened after a rotation
\* that moved the active file to <file>.1
C1_Witness ==
    /\ hist.mode = "stream" /\ pc = "stream"
    /\ hist.calls >= 1 /\ hist.since >= 1
    /\ fs[Gen(1)].ex /\ Active # <<>> /\ Active # Stream

\* C2 as stated: with a positive size, once a line has been appended
\* through the open handle and the loop is back at fgets, the file with that
\* line in it is not above size (otherwise the rotation came first)
C2_RotationBeforeNextAppend ==
    (pc = "stream" /\ size > 0 /\ hist.since >= 1) => Len(Active) <= size

C4_OneRotationAfterCrossing ==
    (/\ hist.mode = "stream" /\ num >= 1
     /\ pc \in {"stream", "rotate_stream"}
     /\ hist.cross.set /\ hist.cross.later = 1) =>
        /\ hist.calls = hist.cross.calls + 1
        /\ fs[Gen(1)].ex /\ fs[Gen(1)].data = hist.cross.bytes
        /\ Active = hist.cross.nextb

\* the generations kept: max_generations of the option in effect
MaxGenerations == Options(ropt).num

\* the slots k with a <file>.k or a <file>.k.gz
Slots == {k \in 0..TopGen : fs[Gen(k)].ex \/ (k >= 1 /\ fs[Gz(k)].ex)}

\* C5: from a directory without generation files, with max_generations
\* N >= 1, no <file>.c or <file>.c.gz with c > N ever exists and at most N
\* slots are occupied
C5_GenerationsBounded ==
    MaxGenerations >= 1 =>
        /\ \A k \in Slots : 1 <= k /\ k <= MaxGenerations
        /\ Cardinality(Slots) <= MaxGenerations

\* C5 witness: with N = 2 a rotation ran on a directory whose two slots
\* were taken, and both are taken after it
C5_Witness ==
    /\ MaxGenerations = 2 /\ hist.last.called
    /\ hist.last.pre[Gen(1)].ex /\ hist.last.pre[Gz(2)].ex
    /\ fs[Gen(1)].ex /\ fs[Gz(2)].ex
    /\ fs[Gen(1)] # hist.last.pre[Gen(1)]

\* a logrotate call has just returned that found the active file above size
Rotating ==
    /\ hist.last.called /\ hist.last.in.statOk
    /\ size > 0 /\ Len(hist.last.pre[Log].data) > size

\* C6 as stated: when the compressor fails in a rotation with
\* max_generations >= 2, the file aged to <file>.2 stays there with its
\* bytes, the active file is rotated into <file>.1, nothing is reported
C6_FailedCompressorKeepsGen2 ==
    (/\ Rotating /\ num >= 2 /\ ~hist.last.in.gzipOk
     /\ hist.last.in.renameOk /\ hist.last.pre[Gen(1)].ex) =>
        /\ fs[Gen(2)] = hist.last.pre[Gen(1)]
        /\ fs[Gen(1)].data = hist.last.pre[Log].data
        /\ reported = {}

\* the process may set the owner of a file it creates to that of old
Authority(old) == euid = "root" \/ old.owner = euid

\* C7 as stated: after a rotation the active file has the permission bits
\* and the owner of the active file before it, when the process has the
\* authority to set them, under every umask and on either path
C7_AttributesPreserved ==
    (Rotating /\ Authority(hist.last.pre[Log])) =>
        /\ fs[Log].ex
        /\ fs[Log].mode = hist.last.pre[Log].mode
        /\ fs[Log].owner = hist.last.pre[Log].owner

C9_FailedAppendExitsNonzero ==
    (pc = "exit" /\ hist.iofail) =>
        /\ rc % 256 # 0
        /\ reported # {}
        /\ ~hist.afterfail

\* C10 as stated: with "-r 0" the size in effect is not positive
C10_ZeroSizeDisables ==
    (pc # "idle" /\ ropt.given /\ strtobytes(ropt.size) = 0) => size <= 0

\* C11 as stated: with "-r SIZE:0" max_generations is 0, and a rotation that
\* finds the active file above SIZE empties it in place and makes or renames
\* no generation file
C11_CountZeroTruncates ==
    (pc # "idle" /\ ropt.given /\ ropt.colon /\ ropt.count = 0) =>
        /\ num = 0
        /\ Rotating =>
              /\ fs[Log] = [hist.last.pre[Log] EXCEPT !.data = <<>>]
              /\ \A n \in Names \ {Log} : fs[n] = hist.last.pre[n]

\* the invocation met no failure: it ran flogit, reported nothing, no write
\* or fsync failed, no rotation was abandoned, no store left main's buf
Success ==
    /\ hist.mode \in {"once", "stream"}
    /\ reported = {} /\ ~hist.iofail /\ ~hist.abandoned /\ ~hist.join.oob

\* C12 as stated: the exit status is 0 on success, nonzero when the active
\* file could not be opened (at first or after a rotation), and nonzero when
\* the invocation line has an option getopt does not know
C12_ExitStatus ==
    pc = "exit" =>
        /\ Success => rc % 256 = 0
        /\ "open" \in reported => rc % 256 # 0
        /\ (hist.mode = "options" /\ hist.opt \notin OptString) => rc % 256 # 0

\* the bytes at the name f, those in the open handle's buffer included
Content(f) == IF f = Log THEN Active ELSE fs[f].data

\* the names whose file holds a byte of input line n
Holders(n) == {f \in Names : \E i \in DOMAIN Content(f) : Content(f)[i] = n}

\* C13 as stated: in write_stream a rotation starts only when the whole of
\* the line read last has been appended (none of its bytes is still to be
\* read), and no line has bytes in two files
C13_NoMidLineRotation ==
    hist.mode = "stream" =>
        /\ pc = "rotate_stream" => rest = <<>>
        /\ \A n \in 1..nlines : Cardinality(Holders(n)) <= 1

\* the log bytes a file holds: those of <file>.k.gz are the decompressed ones
Payload(n) ==
    IF n[1] = "gz" /\ fs[n].ex THEN Decompress(fs[n].data) ELSE fs[n].data

\* the number of log bytes in the files of the set S
RECURSIVE Stored(_)
Stored(S) ==
    IF S = {} THEN 0
    ELSE LET n == CHOOSE x \in S : TRUE IN Len(Payload(n)) + Stored(S \ {n})

\* C14 as stated: after a stream of at least three times the size, written
\* with max_generations 2 into a directory without the active file (and
\* with no call failing, so without the truncation fallback), the active
\* file exists and is not above size, <file>.1 exists, <file>.2.gz does
\* not, and the files together hold as many bytes as were written
C14_ScenarioTwoGenerations ==
    (/\ pc = "exit" /\ hist.mode = "stream" /\ env = {}
     /\ num = 2 /\ size > 0 /\ ~hist.start[Log].ex
     /\ Len(hist.appended) >= 3 * size) =>
        /\ fs[Log].ex /\ Len(fs[Log].data) <= size
        /\ fs[Gen(1)].ex
        /\ ~fs[Gz(2)].ex
        /\ Stored(Names) = Len(hist.appended)

\* the log bytes of slot k of the directory f: <file>.k.gz decompressed, then
\* <file>.k
SlotBytes(f, k) ==
    (IF f[Gz(k)].ex THEN Decompress(f[Gz(k)].data) ELSE <<>>) \o f[Gen(k)].data

\* the generations of f from slot k down to <file>.1, concatenated
RECURSIVE Generations(_, _)
Generations(f, k) ==
    IF k = 0 THEN <<>> ELSE SlotBytes(f, k) \o Generations(f, k - 1)

\* the generations from the highest slot down, then the active file a
ReadBack(f, a) == Generations(f, TopGen) \o a

\* s from its i-th byte on is a subsequence of t from its j-th byte on
RECURSIVE SubseqFrom(_, _, _, _)
SubseqFrom(s, i, t, j) ==
    IF i > Len(s) THEN TRUE
    ELSE IF Len(s) - i > Len(t) - j THEN FALSE
    ELSE IF s[i] = t[j] THEN SubseqFrom(s, i + 1, t, j + 1)
    ELSE SubseqFrom(s, i, t, j + 1)

\* s is a subsequence of t
IsSubseq(s, t) == SubseqFrom(s, 1, t, 1)

\* a byte of a line, not a separator or a header
IsLineByte(b) == b >= 0

\* the line numbers in s (the bytes that are not a separator) never decrease
InOrder(s) ==
    LET l == SelectSeq(s, IsLineByte)
    IN \A i \in 1..(Len(l) - 1) : l[i] <= l[i + 1]

\* the number of bytes of line n in s
Occurrences(n, s) == Cardinality({i \in DOMAIN s : s[i] = n})

\* what the directory read back as at the start of the invocation, followed
\* by everything appended since
Written == ReadBack(hist.start, hist.start[Log].data) \o hist.appended

\* C15: during and after an invocation, the generations from the highest
\* slot down to <file>.1 (compressed ones decompressed) followed by the
\* active file are a subsequence of the bytes written; the lines in it are
\* in the order written (older data in higher slots), and the files
\* together hold no more bytes of a line than were written of it (no line
\* is there twice)
C15_RoundTripSubsequence ==
    hist.mode \in {"once", "stream"} =>
        LET back == ReadBack(fs, Active)
            all == Written
        IN /\ IsSubseq(back, all)
           /\ InOrder(back)
           /\ \A n \in {back[i] : i \in DOMAIN back} :
                 Occurrences(n, back) <= Occurrences(n, all)

\* C15 witness: after rotations <file>.2.gz, <file>.1 and the active file
\* hold bytes of three different lines, oldest in the highest slot
C15_Witness ==
    /\ pc = "exit" /\ hist.mode = "stream" /\ hist.calls >= 1
    /\ fs[Gz(2)].ex /\ fs[Gen(1)].ex /\ fs[Log].data # <<>>
    /\ Decompress(fs[Gz(2)].data) # <<>> /\ fs[Gen(1)].data # <<>>
    /\ Decompress(fs[Gz(2)].data)[1] < fs[Gen(1)].data[1]
    /\ fs[Gen(1)].data[Len(fs[Gen(1)].data)] < fs[Log].data[1]

\* the occupied generation slots of the directory f
SlotsOf(f) == {k \in 1..TopGen : f[Gen(k)].ex \/ f[Gz(k)].ex}

\* the slots S are 1..k for some k <= n
Prefix(S, n) == S = 1..Cardinality(S) /\ Cardinality(S) <= n

\* C16: a rotation with max_generations >= 1 and a working compressor that
\* starts from slots 1..j (none at first, j <= max_generations) ends with
\* slots 1..k, k <= max_generations; and a rotation that starts from any
\* directory, with gaps or without, completes: it returns 0, the active
\* file has become <file>.1 and a new empty active file exists
C16_ContiguousSlots ==
    (Rotating /\ num >= 1) =>
        /\ Prefix(SlotsOf(hist.last.pre), num) => Prefix(SlotsOf(fs), num)
        /\ hist.last.ret = 0
        /\ fs[Gen(1)].ex /\ fs[Gen(1)].data = hist.last.pre[Log].data
        /\ fs[Log].ex /\ fs[Log].data = <<>>

\* C16 witness: a rotation with max_generations 3 started from <file>.3.gz
\* alone (slots 1 and 2 missing) and completed, leaving slots 1 and 3
C16_Witness ==
    /\ Rotating /\ num = 3
    /\ SlotsOf(hist.last.pre) = {3}
    /\ SlotsOf(fs) = {1, 3}
    /\ fs[Gen(1)].data = hist.last.pre[Log].data

\* C17 as stated: a rotation abandoned because stat failed has changed no
\* file and is reported; and an invocation in which a rotation was abandoned,
\* or failed and was reported, ends with a nonzero status, in write_stream
\* as in write_once
C17_WorstOutcomeInStatus ==
    /\ (hist.last.called /\ ~hist.last.in.statOk) =>
          fs = hist.last.pre /\ reported # {}
    /\ (pc = "exit" /\ (hist.abandoned \/ "truncate" \in reported)) =>
          rc % 256 # 0

\* C18: in an invocation that runs flogit no append, flush, size check or
\* close is made on a handle closed before; the handles opened and not yet
\* closed are one while the handle is open and none otherwise (so never
\* two); and at the end every handle opened has been closed, once
C18_HandleClosedOnce ==
    hist.mode \in {"once", "stream"} =>
        /\ ~hist.misuse
        /\ hist.opens - hist.closes = IF fp.open THEN 1 ELSE 0
        /\ pc = "exit" => (~fp.open /\ hist.closes = hist.opens)

\* C18 witness: a stream ended after a rotation: checksz closed the first
\* handle, flogit's fclose the one opened after the rotation
C18_Witness ==
    /\ pc = "exit" /\ hist.mode = "stream" /\ rc = 0
    /\ hist.calls >= 1 /\ hist.opens = hist.calls + 1
    /\ hist.closes = hist.opens /\ ~hist.check

RECURSIVE Joined(_, _, _)
Joined(a, i, n) ==
    IF i > Len(a) THEN <<>> ELSE Message(n, a[i]) \o Joined(a, i + 1, n)

\* C20 as stated: after main has joined the arguments, pos is inside buf,
\* len has not gone below zero, no store was made outside buf, and buf
\* holds the arguments each followed by one space, at most sizeof(buf) - 1
\* bytes
C20_JoinWithinBuffer ==
    hist.mode = "once" =>
        /\ hist.join.pos < LineBuf
        /\ ~hist.join.wrapped /\ ~hist.join.oob
        /\ Len(buf) <= LineBuf - 1
        /\ pc = "reopen" => buf = Joined(hist.join.args, 1, nlines)

=====
